---- MODULE Spec2Model ----
(***************************************************************************)
(* Clerk authentication wiring of shadcn-admin, as given in                *)
(* src/routes/__root.tsx: the root route and the /_authenticated layout    *)
(* route of the React front end, and the FastAPI dependency                *)
(* current_user_claims / require_roles that validates the Clerk JWT.       *)
(*                                                                         *)
(* The FastAPI code calls PyJWT (PyJWKClient, jwt.decode) and FastAPI's    *)
(* HTTPBearer; the operators below follow what those calls do with the     *)
(* arguments the code passes.                                              *)
(***************************************************************************)
EXTENDS Integers, FiniteSets, Sequences, TLC

VARIABLES
    now,              \* wall clock / monotonic clock, in ticks
    AUDIENCE,         \* os.environ.get("CLERK_AUDIENCE")
    cache,            \* jwk_set_cache of the lru_cache'd PyJWKClient
    reqs,             \* the requests in flight, by slot
    burst,            \* bookkeeping over the requests in flight together
    authz,            \* one call of the require_roles dependency
    PUBLISHABLE_KEY,  \* import.meta.env.VITE_CLERK_PUBLISHABLE_KEY is set
    MODE,             \* import.meta.env.MODE
    auth,             \* Clerk's authentication state
    location,         \* the route the router shows
    redirectUrl       \* where Clerk returns to after sign-in

vars == << now, AUDIENCE, cache, reqs, burst, authz,
           PUBLISHABLE_KEY, MODE, auth, location, redirectUrl >>

apiVars == << now, AUDIENCE, cache, reqs, burst >>
uiVars == << PUBLISHABLE_KEY, MODE, auth, location, redirectUrl >>

(***************************************************************************)
(* Bounds of the model.                                                    *)
(***************************************************************************)
\* the clock runs over 0..MaxTime
MaxTime == 2
\* lifetime of a cached key set in ticks (PyJWKClient's lifespan, scaled)
Lifespan == 1
\* requests that can be in flight together
MaxBurst == 2
\* respects in which a token may differ from the reference token
MaxVary == 1
\* characters of a role name passed to require_roles on its own
MaxName == 2
\* entries of a "roles" list passed to require_roles on its own
MaxRoles == 2

Times == 0 .. MaxTime
Slots == 1 .. MaxBurst

(***************************************************************************)
(* Values of the FastAPI example.                                          *)
(***************************************************************************)
None == "None"
ISSUER == "https://issuer.test"
ALGORITHMS == {"RS256"}
HTTP_401_UNAUTHORIZED == 401
HTTP_403_FORBIDDEN == 403
\* options["require"] of jwt.decode
Require == {"exp", "iat", "iss", "sub"}

Kids == {"k1", "k2"}
KeySets == (SUBSET Kids) \ {{}}

\* exceptions of PyJWT that derive from InvalidTokenError
InvalidTokenError ==
    { "MalformedToken", "AlgorithmNotAllowed", "BadSignature", "MissingClaim",
      "NotYetValid", "Expired", "IssuerMismatch", "AudienceMismatch" }
\* exceptions of PyJWKClient: PyJWKClientError, not an InvalidTokenError
PyJWKClientError == { "UnknownKey", "KeySetUnavailable" }

(***************************************************************************)
(* Tokens.  A payload is a mapping whose keys may be missing.              *)
(***************************************************************************)
EmptyMap == [x \in {} |-> x]

\* a Python str is the sequence of its characters
admin == << "a", "d", "m", "i", "n" >>

\* the JSON values of a claim: a list of strings, a string, a number, null
List(l) == [ list |-> l ]
Str(s) == [ str |-> s ]
Num(n) == [ num |-> n ]
Null == [ null |-> TRUE ]

Payloads ==
    { base @@ i @@ a @@ n @@ r :
        base \in [ sub : {"user_123"},
                   exp : Times,
                   iat : {0, MaxTime + 1} ],
        i \in {EmptyMap} \cup [ iss : {ISSUER, "https://evil.test"} ],
        a \in {EmptyMap} \cup [ aud : {{"other"}, {"api", "other"}} ],
        n \in {EmptyMap} \cup [ nbf : {0, MaxTime + 1} ],
        r \in {EmptyMap}
                 \cup [ roles : {List(<< admin >>), Str(admin), Num(7)} ] }

WellFormed ==
    [ malformed : {FALSE},
      header : [ kid : Kids, alg : {"RS256", "HS256"} ],
      payload : Payloads,
      signer : Kids ]

Garbage ==
    [ malformed |-> TRUE,
      header |-> [ kid |-> "k1", alg |-> "RS256" ],
      payload |-> EmptyMap,
      signer |-> "k1" ]

\* the number of respects in which a token differs from the reference token:
\* RS256, naming and signed by k1, issued at 0 by ISSUER for {"api", "other"},
\* expiring at 1, without nbf and without roles
Differs(x) == IF x THEN 1 ELSE 0

Variations(token) ==
    LET p == token.payload
    IN  Differs(token.header.kid # "k1" \/ token.signer # "k1")
        + Differs(token.header.alg # "RS256")
        + Differs(p.exp # 1)
        + Differs(p.iat # 0)
        + Differs("iss" \notin DOMAIN p \/ ("iss" \in DOMAIN p /\ p.iss # ISSUER))
        + Differs("aud" \notin DOMAIN p
                      \/ ("aud" \in DOMAIN p /\ p.aud # {"api", "other"}))
        + Differs("nbf" \in DOMAIN p)
        + Differs("roles" \in DOMAIN p)

\* a request without bearer credentials: no Authorization header, another
\* scheme, or an empty token
NoCredentials == [ scheme |-> "none" ]

Routes == {"/api/protected", "/api/admin-only"}

\* the requests served: the reference token sent to /api/admin-only, and the
\* requests that differ from it in at most MaxVary respects; a token that
\* does not parse and a request without credentials, on either route
Requests ==
    { q \in [ route : Routes, cred : WellFormed ] :
        Variations(q.cred) + Differs(q.route # "/api/admin-only") <= MaxVary }
    \cup [ route : Routes, cred : {Garbage, NoCredentials} ]

(***************************************************************************)
(* What a GET of CLERK_JWKS_URL meets when it is answered: the time, whether *)
(* the endpoint can be reached, and the key set it publishes.  A GET blocks, *)
(* and the identity provider rotates its keys and the network comes and goes *)
(* on their own: every GET meets the endpoint as it is at that moment.       *)
(***************************************************************************)
Envs == [ t : Times, net : BOOLEAN, rem : KeySets ]

(***************************************************************************)
(* PyJWKClient, as get_jwks_client builds it: cache_jwk_set on.            *)
(***************************************************************************)
NoCache == [ present |-> FALSE, set |-> {}, ts |-> 0 ]

\* JWKSetCache.get: the cached key set unless none is held or it expired
JWKSetCache_get(c, t) ==
    IF ~c.present \/ t > c.ts + Lifespan
    THEN [ hit |-> FALSE, set |-> {} ]
    ELSE [ hit |-> TRUE, set |-> c.set ]

\* fetch_data: one GET of the key set; its finally clause stores the result,
\* and a failed fetch stores None, which clears the cache
fetch_data(e) ==
    IF e.net
    THEN [ ok |-> TRUE, set |-> e.rem,
           cache |-> [ present |-> TRUE, set |-> e.rem, ts |-> e.t ],
           fetches |-> 1 ]
    ELSE [ ok |-> FALSE, set |-> {}, cache |-> NoCache, fetches |-> 1 ]

\* get_jwk_set(refresh): the cache is looked at at time t, a GET is answered
\* at e
get_jwk_set(refresh, c, t, e) ==
    LET data == IF refresh THEN [ hit |-> FALSE, set |-> {} ]
                ELSE JWKSetCache_get(c, t)
    IN  IF data.hit
        THEN [ ok |-> TRUE, set |-> data.set, cache |-> c, fetches |-> 0 ]
        ELSE fetch_data(e)

\* get_signing_key(kid): look the key up, refresh once on a miss.  The call
\* looks at the cache at t0; e1 is what its first GET meets and e2 what its
\* second GET meets.
get_signing_key(kid, c, t0, e1, e2) ==
    LET first == get_jwk_set(FALSE, c, t0, e1)
    IN  IF ~first.ok
        THEN [ kind |-> "KeySetUnavailable", key |-> None,
               cache |-> first.cache, fetches |-> first.fetches ]
        ELSE IF kid \in first.set
        THEN [ kind |-> "key", key |-> kid,
               cache |-> first.cache, fetches |-> first.fetches ]
        ELSE LET second == get_jwk_set(TRUE, first.cache, t0,
                                       IF first.fetches = 0 THEN e1 ELSE e2)
                 n == first.fetches + second.fetches
             IN  IF ~second.ok
                 THEN [ kind |-> "KeySetUnavailable", key |-> None,
                        cache |-> second.cache, fetches |-> n ]
                 ELSE IF kid \in second.set
                 THEN [ kind |-> "key", key |-> kid,
                        cache |-> second.cache, fetches |-> n ]
                 ELSE [ kind |-> "UnknownKey", key |-> None,
                        cache |-> second.cache, fetches |-> n ]

(***************************************************************************)
(* jwt.decode with the arguments current_user_claims passes.               *)
(***************************************************************************)
\* faulty variant: the signature is not compared
verify_signature_unchecked(token, key, algorithms) ==
    IF token.header.alg \notin algorithms THEN "AlgorithmNotAllowed" ELSE "ok"

\* faulty variant: the algorithm the header declares is trusted
verify_signature_any_alg(token, key, algorithms) ==
    IF token.signer # key THEN "BadSignature" ELSE "ok"

\* the allow-list comes first, then the signature under the resolved key
verify_signature(token, key, algorithms) ==
    IF token.header.alg \notin algorithms THEN "AlgorithmNotAllowed"
    ELSE IF token.signer # key THEN "BadSignature"
    ELSE "ok"

validate_required_claims(payload, require) ==
    IF \E c \in require : c \notin DOMAIN payload THEN "MissingClaim" ELSE "ok"

validate_iat(payload, t, leeway) ==
    IF payload.iat > t + leeway THEN "NotYetValid" ELSE "ok"

\* verify_nbf is on by default; the claim is optional
validate_nbf(payload, t, leeway) ==
    IF "nbf" \in DOMAIN payload /\ payload.nbf > t + leeway
    THEN "NotYetValid" ELSE "ok"

validate_exp(payload, t, leeway) ==
    IF payload.exp <= t - leeway THEN "Expired" ELSE "ok"

validate_iss(payload, issuer) ==
    IF "iss" \notin DOMAIN payload THEN "MissingClaim"
    ELSE IF payload.iss # issuer THEN "IssuerMismatch"
    ELSE "ok"

validate_aud(payload, audience) ==
    IF "aud" \notin DOMAIN payload THEN "MissingClaim"
    ELSE IF audience \notin payload.aud THEN "AudienceMismatch"
    ELSE "ok"

\* _validate_claims: required claims, iat, nbf, exp, iss, aud, in this order
validate_claims(payload, issuer, audience, require, verify_aud, t, leeway) ==
    LET r == validate_required_claims(payload, require)
        i == validate_iat(payload, t, leeway)
        n == validate_nbf(payload, t, leeway)
        e == validate_exp(payload, t, leeway)
        s == validate_iss(payload, issuer)
        a == IF verify_aud THEN validate_aud(payload, audience) ELSE "ok"
    IN  IF r # "ok" THEN r
        ELSE IF i # "ok" THEN i
        ELSE IF n # "ok" THEN n
        ELSE IF e # "ok" THEN e
        ELSE IF s # "ok" THEN s
        ELSE a

jwt_decode(token, key, algorithms, issuer, audience, require, verify_aud, t) ==
    LET s == verify_signature(token, key, algorithms)
    IN  IF s # "ok" THEN s
        ELSE validate_claims(token.payload, issuer, audience, require,
                             verify_aud, t, 0)

(***************************************************************************)
(* The FastAPI dependencies and routes.                                    *)
(***************************************************************************)
\* current_user_claims: the kind of the outcome, the client's cache after the
\* call, and the number of GETs of the key set the call made.  The call
\* starts at t0, its GETs are answered at e1 and e2, and jwt.decode reads the
\* clock at t3.
current_user_claims(token, c, t0, e1, e2, t3, audience) ==
    IF token.malformed
    THEN [ kind |-> "MalformedToken", cache |-> c, fetches |-> 0 ]
    ELSE LET k == get_signing_key(token.header.kid, c, t0, e1, e2)
         IN  IF k.kind # "key"
             THEN [ kind |-> k.kind, cache |-> k.cache, fetches |-> k.fetches ]
             ELSE [ kind |-> jwt_decode(token, k.key, ALGORITHMS, ISSUER,
                                        audience, Require, audience # None, t3),
                    cache |-> k.cache, fetches |-> k.fetches ]

\* security = HTTPBearer(auto_error=True), then current_user_claims: a
\* request without bearer credentials is refused before the token is looked at
security(cred, c, t0, e1, e2, t3, audience) ==
    IF cred = NoCredentials
    THEN [ kind |-> "NotAuthenticated", cache |-> c, fetches |-> 0 ]
    ELSE current_user_claims(cred, c, t0, e1, e2, t3, audience)

\* the status FastAPI answers with when the dependencies ended with the
\* exception `kind`: HTTPBearer raises a 403, the except clause turns an
\* InvalidTokenError into a 401, any other exception leaves the handler and
\* FastAPI answers 500
exception_status(kind) ==
    IF kind = "NotAuthenticated" THEN HTTP_403_FORBIDDEN
    ELSE IF kind \in InvalidTokenError THEN HTTP_401_UNAUTHORIZED
    ELSE 500

\* claims.get(key, default)
claims_get(claims, key, default) ==
    IF key \in DOMAIN claims THEN claims[key] ELSE default

\* set(x) of Python: the entries of a list, the characters of a str (each a
\* str of length one); a number and None are not iterable: TypeError
set(x) ==
    IF "list" \in DOMAIN x
    THEN [ raised |-> FALSE, val |-> { x.list[i] : i \in 1 .. Len(x.list) } ]
    ELSE IF "str" \in DOMAIN x
    THEN [ raised |-> FALSE, val |-> { << x.str[i] >> : i \in 1 .. Len(x.str) } ]
    ELSE [ raised |-> TRUE, val |-> {} ]

\* require_roles(*roles)._dep: how the call ends, with the claims returned,
\* with the HTTPException raised, or with the TypeError of set(...)
require_roles(roles, claims) ==
    LET user_roles == set(claims_get(claims, "roles", List(<< >>)))
    IN  IF user_roles.raised THEN "TypeError"
        ELSE IF (user_roles.val \cap roles) = {} THEN "HTTPException"
        ELSE "claims"

NoReq == [ pc |-> "free" ]
NoBurst == [ kid |-> None, calls |-> 0, misses |-> 0, fetches |-> 0 ]

\* the key identifier is not in a usable cached key set
CacheMiss(cred, c, t) ==
    /\ cred # NoCredentials
    /\ ~cred.malformed
    /\ cred.header.kid \notin JWKSetCache_get(c, t).set

\* no GET: the clock alone
NoGet(t) == [ t |-> t, net |-> FALSE, rem |-> {} ]

\* what the first GET of a call can meet, when the call makes one (the key is
\* not in a usable cached key set): the clock and the endpoint at any moment
\* from the start of the call on
FirstGet(cred, c, t0) ==
    IF CacheMiss(cred, c, t0)
    THEN { e \in Envs : e.t >= t0 }
    ELSE { NoGet(t0) }

\* what the second GET of a call can meet, when the call makes two (a cold
\* or expired cache, and the key missing from the key set fetched first)
SecondGet(cred, c, t0, e1) ==
    IF /\ CacheMiss(cred, c, t0)
       /\ ~JWKSetCache_get(c, t0).hit
       /\ e1.net
       /\ cred.header.kid \notin e1.rem
    THEN { e \in Envs : e.t >= e1.t }
    ELSE { NoGet(e1.t) }

\* when jwt.decode can read the clock, when the call gets that far (the key
\* is resolved): at any moment after the last GET
DecodeAt(cred, c, t0, e1, e2) ==
    IF /\ cred # NoCredentials
       /\ ~cred.malformed
       /\ get_signing_key(cred.header.kid, c, t0, e1, e2).kind = "key"
    THEN { t \in Times : t >= e2.t }
    ELSE { e2.t }

\* the moments a call starting at t0 can meet
Moments(cred, c, t0) ==
    UNION { UNION { { [ e1 |-> e1, e2 |-> e2, t3 |-> t3 ] :
                        t3 \in DecodeAt(cred, c, t0, e1, e2) } :
                    e2 \in SecondGet(cred, c, t0, e1) } :
            e1 \in FirstGet(cred, c, t0) }

\* the async dependencies of a request run on the event loop without
\* awaiting: HTTPBearer, then current_user_claims with its blocking GETs and
\* jwt.decode, at the moments m; the clock is left as the call read it
\* last.  A failure is the response; otherwise the request goes
\* on to the thread pool, for require_roles._dep on the role-protected route
\* and for the route function.
Dependencies(s, route, cred, m) ==
    LET r == security(cred, cache, now, m.e1, m.e2, m.t3, AUDIENCE)
    IN  /\ cache' = r.cache
        /\ now' = m.t3
        /\ reqs' = [ reqs EXCEPT ![s] =
                       [ pc |-> IF r.kind # "ok" THEN "done"
                                ELSE IF route = "/api/admin-only" THEN "roles"
                                ELSE "route",
                         route |-> route,
                         cred |-> cred,
                         kind |-> r.kind,
                         status |-> IF r.kind # "ok"
                                    THEN exception_status(r.kind) ELSE 0,
                         fetches |-> r.fetches,
                         miss |-> CacheMiss(cred, cache, now) ] ]

\* a request arrives and its dependencies run
Request ==
    /\ reqs[1] = NoReq
    /\ \E q \in Requests :
          \E m \in Moments(q.cred, cache, now) :
             Dependencies(1, q.route, q.cred, m)
    /\ UNCHANGED << AUDIENCE, burst, authz, uiVars >>

\* tokens that differ in the key identifier alone
KeyTokens ==
    { t \in [ malformed : {FALSE},
              header : [ kid : Kids, alg : {"RS256"} ],
              payload : { [ sub |-> "user_123", aud |-> {"api", "other"},
                            exp |-> MaxTime + 1, iat |-> 0, iss |-> ISSUER ] },
              signer : Kids ] :
        t.signer = t.header.kid }

\* the dependencies of a request of another client run; its response is not
\* followed
OtherRequest ==
    /\ \E token \in KeyTokens :
          \E m \in Moments(token, cache, now) :
             LET r == security(token, cache, now, m.e1, m.e2, m.t3, AUDIENCE)
             IN  /\ cache' = r.cache
                 /\ now' = m.t3
    /\ UNCHANGED << AUDIENCE, reqs, burst, authz, uiVars >>

\* require_roles("admin")._dep, in the thread pool: on to the route, 403, or
\* the uncaught TypeError that FastAPI answers with 500
require_roles_dep ==
    /\ \E s \in Slots :
          /\ reqs[s].pc = "roles"
          /\ LET r == require_roles({admin}, reqs[s].cred.payload)
             IN  reqs' = [ reqs EXCEPT ![s] =
                            IF r = "claims"
                            THEN [ reqs[s] EXCEPT !.pc = "route" ]
                            ELSE [ reqs[s] EXCEPT
                                     !.pc = "done",
                                     !.status = IF r = "HTTPException"
                                                THEN HTTP_403_FORBIDDEN
                                                ELSE 500 ] ]
    /\ UNCHANGED << now, AUDIENCE, cache, burst, authz, uiVars >>

\* GET /api/protected, in the thread pool: the body is returned
protected_route ==
    /\ \E s \in Slots :
          /\ reqs[s].pc = "route"
          /\ reqs[s].route = "/api/protected"
          /\ reqs' = [ reqs EXCEPT ![s] =
                         [ reqs[s] EXCEPT !.pc = "done", !.status = 200 ] ]
    /\ UNCHANGED << now, AUDIENCE, cache, burst, authz, uiVars >>

\* GET /api/admin-only, in the thread pool: the body is returned
admin_only ==
    /\ \E s \in Slots :
          /\ reqs[s].pc = "route"
          /\ reqs[s].route = "/api/admin-only"
          /\ reqs' = [ reqs EXCEPT ![s] =
                         [ reqs[s] EXCEPT !.pc = "done", !.status = 200 ] ]
    /\ UNCHANGED << now, AUDIENCE, cache, burst, authz, uiVars >>

\* the response goes out
Respond ==
    /\ \E s \in Slots :
          /\ reqs[s].pc = "done"
          /\ reqs' = [ reqs EXCEPT ![s] = NoReq ]
    /\ UNCHANGED << now, AUDIENCE, cache, burst, authz, uiVars >>

Tick ==
    /\ now < MaxTime
    /\ now' = now + 1
    /\ UNCHANGED << AUDIENCE, cache, reqs, burst, authz, uiVars >>

\* a burst of requests in flight together: the calls of the burst that missed
\* the cache on one key identifier, and the GETs of the key set they made
Track(b, token, r) ==
    IF CacheMiss(token, cache, now) /\ b.kid \in {None, token.header.kid}
    THEN [ kid |-> token.header.kid, calls |-> b.calls + 1,
           misses |-> b.misses + 1, fetches |-> b.fetches + r.fetches ]
    ELSE [ b EXCEPT !.calls = @ + 1 ]

\* a request arrives while others are in flight (or starts a new burst when
\* none is): current_user_claims is an async def that never awaits, so it
\* runs to its end, and the requests whose dependencies have run wait for
\* the thread pool or for their response to go out
BurstRequest ==
    /\ \E s \in Slots, token \in KeyTokens :
          \E m \in Moments(token, cache, now) :
             LET b == IF \A q \in Slots : reqs[q] = NoReq THEN NoBurst ELSE burst
             IN  /\ reqs[s] = NoReq
                 /\ \A q \in Slots : q < s => reqs[q] # NoReq
                 /\ b.calls < MaxBurst
                 /\ Dependencies(s, "/api/protected", token, m)
                 /\ burst' = Track(b, token,
                                   security(token, cache, now, m.e1, m.e2, m.t3,
                                            AUDIENCE))
    /\ UNCHANGED << AUDIENCE, authz, uiVars >>

(***************************************************************************)
(* require_roles as a function of its inputs.                              *)
(***************************************************************************)
Letters == {"a", "b"}
\* the strings of at most MaxName letters, and those that name a role
Strings == UNION { [ 1 .. n -> Letters ] : n \in 0 .. MaxName }
Names == Strings \ { << >> }
\* the roles a route may require
RoleNames == { << "a" >>, << "a", "b" >> }

\* the claims handed to _dep: "roles" missing, a list of names, a string, a
\* number or null
ClaimsInputs ==
    { [ sub |-> "user_123" ] @@ r :
        r \in {EmptyMap}
                 \cup [ roles : { List(l) :
                                    l \in UNION { [ 1 .. n -> Names ] :
                                                    n \in 0 .. MaxRoles } }
                                \cup { Str(x) : x \in Strings }
                                \cup { Num(7), Null } ] }

NoAuthz == [ state |-> "idle" ]

\* _dep(claims): return the claims, raise 403, or end in the TypeError
Authorize ==
    /\ authz.state = "called"
    /\ LET r == require_roles(authz.roles, authz.claims)
       IN  authz' = [ authz EXCEPT
                        !.state = "returned",
                        !.status = IF r = "claims" THEN 200
                                   ELSE IF r = "HTTPException"
                                   THEN HTTP_403_FORBIDDEN
                                   ELSE 500,
                        !.returned = IF r = "claims"
                                     THEN authz.claims ELSE EmptyMap ]
    /\ UNCHANGED << apiVars, uiVars >>

(***************************************************************************)
(* The front end: the root route and the /_authenticated layout route.     *)
(***************************************************************************)
signInUrl == "/sign-in"
signUpUrl == "/sign-up"
afterSignOutUrl == "/sign-in"
signInFallbackRedirectUrl == "/"

PublicRoutes == {"/", "/help", signInUrl, signUpUrl}
ProtectedRoutes ==
    { "/_authenticated/dashboard", "/_authenticated/user-management",
      "/_authenticated/settings" }
Modes == {"development", "production", "test"}

\* faulty variant: the children show as soon as Clerk has loaded
SignedIn_loaded(a, children) == IF a # "loading" THEN children ELSE {}

\* <SignedIn>: its children once Clerk has loaded a signed-in user
SignedIn(a, children) == IF a = "signedIn" THEN children ELSE {}

\* <SignedOut>: its children once Clerk has loaded and no user is signed in
SignedOut(a, children) == IF a = "signedOut" THEN children ELSE {}

\* component of createFileRoute('/_authenticated')
AuthenticatedRoute(a, loc) ==
    SignedIn(a, {"AuthenticatedLayout", loc}) \cup SignedOut(a, {"RedirectToSignIn"})

\* <Outlet /> of the root route: the matched child route
Outlet(a, loc) ==
    IF loc \in ProtectedRoutes THEN AuthenticatedRoute(a, loc) ELSE {loc}

\* component of the root route: what is on the page
RootComponent(key, mode, a, loc) ==
    IF ~key
    THEN {"Missing Clerk publishable key"}
    ELSE {"ClerkProvider", "NavigationProgress", "Toaster"}
         \cup Outlet(a, loc)
         \cup (IF mode = "development"
               THEN {"ReactQueryDevtools", "TanStackRouterDevtools"}
               ELSE {})

Rendered == RootComponent(PUBLISHABLE_KEY, MODE, auth, location)

\* ClerkProvider finishes loading the session
ClerkLoaded ==
    /\ PUBLISHABLE_KEY
    /\ auth = "loading"
    /\ auth' \in {"signedIn", "signedOut"}
    /\ UNCHANGED << PUBLISHABLE_KEY, MODE, location, redirectUrl, apiVars, authz >>

\* the user completes <SignIn /> or <SignUp />
SignInCompleted ==
    /\ PUBLISHABLE_KEY
    /\ auth = "signedOut"
    /\ location \in {signInUrl, signUpUrl}
    /\ auth' = "signedIn"
    /\ location' = IF redirectUrl # None THEN redirectUrl
                   ELSE signInFallbackRedirectUrl
    /\ redirectUrl' = None
    /\ UNCHANGED << PUBLISHABLE_KEY, MODE, apiVars, authz >>

\* signOut()
SignOut ==
    /\ PUBLISHABLE_KEY
    /\ auth = "signedIn"
    /\ auth' = "signedOut"
    /\ location' = afterSignOutUrl
    /\ redirectUrl' = None
    /\ UNCHANGED << PUBLISHABLE_KEY, MODE, apiVars, authz >>

\* the session ends without the user acting here (expiry, another tab)
SessionEnded ==
    /\ PUBLISHABLE_KEY
    /\ auth = "signedIn"
    /\ auth' = "signedOut"
    /\ UNCHANGED << PUBLISHABLE_KEY, MODE, location, redirectUrl, apiVars, authz >>

\* the user follows a link or types an address
Navigate ==
    /\ \E l \in PublicRoutes \cup ProtectedRoutes :
          /\ l # location
          /\ location' = l
    /\ redirectUrl' = None
    /\ UNCHANGED << PUBLISHABLE_KEY, MODE, auth, apiVars, authz >>

\* the effect of a rendered <RedirectToSignIn />
RedirectToSignIn ==
    /\ "RedirectToSignIn" \in Rendered
    /\ location' = signInUrl
    /\ redirectUrl' = location
    /\ UNCHANGED << PUBLISHABLE_KEY, MODE, auth, apiVars, authz >>

\* the page is loaded again: Clerk starts over
Reload ==
    /\ PUBLISHABLE_KEY
    /\ auth # "loading"
    /\ auth' = "loading"
    /\ UNCHANGED << PUBLISHABLE_KEY, MODE, location, redirectUrl, apiVars, authz >>


(***************************************************************************)
(* Specifications.                                                         *)
(***************************************************************************)
InitUIIdle ==
    /\ PUBLISHABLE_KEY = TRUE
    /\ MODE = "production"
    /\ auth = "loading"
    /\ location = "/"
    /\ redirectUrl = None

InitApi ==
    /\ now = 0
    /\ AUDIENCE \in {None, "api"}
    /\ cache = NoCache
    /\ reqs = [ s \in Slots |-> NoReq ]
    /\ burst = NoBurst

\* the API at rest, for the specifications that do not run it
InitApiIdle ==
    /\ now = 0
    /\ AUDIENCE = None
    /\ cache = NoCache
    /\ reqs = [ s \in Slots |-> NoReq ]
    /\ burst = NoBurst

\* the API serving one request of any kind at a time, among the requests of
\* other clients
Init ==
    /\ InitApi
    /\ authz = NoAuthz
    /\ InitUIIdle

Next ==
    \/ Request
    \/ OtherRequest
    \/ require_roles_dep
    \/ protected_route
    \/ admin_only
    \/ Respond
    \/ Tick

Spec == Init /\ [][Next]_vars

\* the API serving requests in flight together that differ in the key
\* identifier
NextKeys ==
    \/ BurstRequest
    \/ protected_route
    \/ Respond
    \/ Tick

SpecKeys == Init /\ [][NextKeys]_vars

\* require_roles applied to every input
InitAuthorize ==
    /\ InitApiIdle
    /\ InitUIIdle
    /\ authz \in [ state : {"called"}, roles : SUBSET RoleNames,
                   claims : ClaimsInputs, status : {0}, returned : {EmptyMap} ]

NextAuthorize == Authorize

SpecAuthorize == InitAuthorize /\ [][NextAuthorize]_vars

\* the front end
InitUI ==
    /\ InitApiIdle
    /\ authz = NoAuthz
    /\ PUBLISHABLE_KEY \in BOOLEAN
    /\ MODE \in Modes
    /\ auth = "loading"
    /\ location \in PublicRoutes \cup ProtectedRoutes
    /\ redirectUrl = None

NextUI ==
    \/ ClerkLoaded
    \/ SignInCompleted
    \/ SignOut
    \/ SessionEnded
    \/ Navigate
    \/ RedirectToSignIn
    \/ Reload

SpecUI == InitUI /\ [][NextUI]_vars

(***************************************************************************)
(* Properties.                                                             *)
(***************************************************************************)
\* the request in slot s has had its dependencies run
InFlight(s) == reqs[s] # NoReq

\* the request in slot s carries a token that parses
Parsed(s) ==
    /\ InFlight(s)
    /\ reqs[s].cred # NoCredentials
    /\ ~reqs[s].cred.malformed

\* the step in which current_user_claims runs for the followed request and
\* returns to FastAPI
Returns == reqs[1] = NoReq /\ reqs'[1] # NoReq /\ reqs'[1].cred # NoCredentials

\* the key the token names is in the key set c the client holds, a key set
\* that was not expired at t
KeyInKeySet(token, c, t) ==
    /\ c.present
    /\ t <= c.ts + Lifespan
    /\ token.header.kid \in c.set

\* the audience of the token satisfies the configured one
AudienceMatches(token) ==
    AUDIENCE # None =>
        /\ "aud" \in DOMAIN token.payload
        /\ AUDIENCE \in token.payload.aud

\* C1: when current_user_claims returns claims, the token's signature
\* validates under a signing key of the key set the client holds at that
\* moment, its issuer is the expected one, its audience contains the expected
\* one when one is configured, and its expiry has not passed.
C1_ClaimsOnlyForVerifiedToken ==
    [][ (Returns /\ reqs'[1].kind = "ok") =>
            LET token == reqs'[1].cred
            IN  /\ ~token.malformed
                /\ KeyInKeySet(token, cache', now)
                /\ token.signer = token.header.kid
                /\ "iss" \in DOMAIN token.payload
                /\ token.payload.iss = "https://issuer.test"
                /\ AudienceMatches(token)
                /\ token.payload.exp > now' ]_vars

\* C1 witness: claims were returned by a call that fetched the key set twice
\* (the key was published between its two GETs), with an audience configured
C1_Witness ==
    /\ InFlight(1)
    /\ reqs[1].kind = "ok"
    /\ reqs[1].fetches = 2
    /\ AUDIENCE = "api"

\* C5 as stated: every failing outcome of current_user_claims reaches the
\* caller as the rejection the except clause builds (an HTTP 401 carrying the
\* kind), none escapes the handler.
C5_EveryFailureIsRejection ==
    \A s \in Slots :
        (InFlight(s) /\ reqs[s].cred # NoCredentials /\ reqs[s].kind # "ok")
            => reqs[s].status = 401

\* the token is signed by the key it names, under an allowed algorithm, that
\* key is resolved, and issuer, audience, issued-at and not-before pass
ValidButForExpiry(token, c, t0, t) ==
    /\ ~token.malformed
    /\ KeyInKeySet(token, c, t0)
    /\ token.header.alg = "RS256"
    /\ token.signer = token.header.kid
    /\ "iss" \in DOMAIN token.payload
    /\ token.payload.iss = "https://issuer.test"
    /\ AudienceMatches(token)
    /\ token.payload.iat <= t
    /\ "nbf" \in DOMAIN token.payload => token.payload.nbf <= t

\* C6 as stated: for a validly signed token with matching issuer and audience
\* and every skew allowance a >= 0, the outcome is Expired exactly when
\* exp + a is not in the future, and otherwise the token verifies.
C6_ExpiredIffPastAllowance ==
    [][ (Returns /\ ValidButForExpiry(reqs'[1].cred, cache', now, now')) =>
            \A a \in {0, 5} :
                (reqs'[1].kind = "Expired")
                    <=> (reqs'[1].cred.payload.exp + a <= now') ]_vars

\* C6 with the allowance the code uses: current_user_claims passes no
\* leeway, so for a validly signed token with matching issuer and audience
\* the outcome is Expired exactly when exp is not in the future, and
\* otherwise the token verifies.
C6_ExpiredIffNotInFuture ==
    [][ (Returns /\ ValidButForExpiry(reqs'[1].cred, cache', now, now')) =>
            /\ (reqs'[1].kind = "Expired")
                   <=> (reqs'[1].cred.payload.exp <= now')
            /\ (reqs'[1].cred.payload.exp > now') => reqs'[1].kind = "ok" ]_vars

\* C7: a token whose header declares an algorithm outside the allow-list
\* never yields claims and is never answered 200; when its key is resolved
\* it is rejected with AlgorithmNotAllowed whatever the key and whatever the
\* signature.
C7_AlgorithmAllowList ==
    /\ [] ( (Parsed(1) /\ reqs[1].cred.header.alg # "RS256") =>
                /\ reqs[1].kind # "ok"
                /\ reqs[1].status \in {401, 500} )
    /\ [][ (Returns /\ ~reqs'[1].cred.malformed
                    /\ reqs'[1].cred.header.alg # "RS256"
                    /\ KeyInKeySet(reqs'[1].cred, cache', now)) =>
               /\ reqs'[1].kind = "AlgorithmNotAllowed"
               /\ reqs'[1].status = 401 ]_vars

\* C7 witness: an HS256 token that is correctly signed, from the expected
\* issuer and for the expected audience, is rejected with AlgorithmNotAllowed
C7_Witness ==
    /\ Parsed(1)
    /\ reqs[1].cred.header.alg = "HS256"
    /\ reqs[1].cred.signer = reqs[1].cred.header.kid
    /\ Variations(reqs[1].cred) = 1
    /\ reqs[1].kind = "AlgorithmNotAllowed"
    /\ reqs[1].status = 401

\* C9 as stated: on the role-protected route a 403 is answered only to a
\* request whose token verified, and a request whose token fails signature
\* or claim verification gets 401 whatever roles its payload claims.
C9_ForbiddenOnlyAfterVerification ==
    \A s \in Slots :
        (InFlight(s) /\ reqs[s].route = "/api/admin-only") =>
            /\ reqs[s].status = 403 =>
                  (reqs[s].cred # NoCredentials /\ reqs[s].kind = "ok")
            /\ reqs[s].kind \in InvalidTokenError => reqs[s].status = 401

\* C9 for the requests that carry a bearer token: 403 only after the token
\* verified, 401 for a token that fails signature or claim verification.
C9_BearerForbiddenOnlyAfterVerification ==
    \A s \in Slots :
        (InFlight(s) /\ reqs[s].route = "/api/admin-only"
                     /\ reqs[s].cred # NoCredentials) =>
            /\ reqs[s].status = 403 => reqs[s].kind = "ok"
            /\ reqs[s].kind \in InvalidTokenError => reqs[s].status = 401

\* C2 as stated: a call whose key identifier is absent from the cached key
\* set fetches the key set exactly once (the endpoint being reachable), then
\* resolves the key or is rejected with UnknownKey.
C2_ExactlyOneRefreshOnMiss ==
    \A s \in Slots :
        (InFlight(s) /\ reqs[s].miss /\ reqs[s].kind # "KeySetUnavailable") =>
            /\ reqs[s].fetches = 1
            /\ reqs[s].kind \in {"ok", "UnknownKey"}
            /\ reqs[s].kind = "UnknownKey" => reqs[s].status = 401

\* C3 as stated: calls in flight together that all miss the cache on the same
\* key identifier issue exactly one fetch of the key set between them.
C3_SingleFlight ==
    burst.misses >= 2 => burst.fetches = 1

\* C4 as stated: a network failure while the key set is fetched is answered
\* with the KeySetUnavailable rejection, not with an uncaught failure, and
\* leaves no failure in the cache.
C4_KeySetUnavailableRejection ==
    \A s \in Slots :
        (InFlight(s) /\ reqs[s].kind = "KeySetUnavailable") =>
            /\ reqs[s].status = 401
            /\ reqs[s].fetches >= 1

\* the role set of a claims mapping: the entries of a "roles" list, the one
\* role of a "roles" string, no role when the claim is missing or no role
RoleSet(claims) ==
    IF "roles" \notin DOMAIN claims THEN {}
    ELSE IF "list" \in DOMAIN claims.roles
    THEN { claims.roles.list[i] : i \in 1 .. Len(claims.roles.list) }
    ELSE IF "str" \in DOMAIN claims.roles THEN { claims.roles.str }
    ELSE {}

\* the call returned for claims whose "roles" is missing or a list
ListRoles ==
    /\ authz.state = "returned"
    /\ ("roles" \in DOMAIN authz.claims => "list" \in DOMAIN authz.claims.roles)

\* the step of _dep leaves its inputs and every other state as they were
NoSideEffects ==
    (authz.state = "called" /\ authz'.state = "returned") =>
        /\ authz'.claims = authz.claims
        /\ authz'.roles = authz.roles
        /\ UNCHANGED << apiVars, uiVars >>

\* C8: for every claims mapping and every required set, require_roles grants
\* (returns the claims it was given) exactly when the claims' role set and the
\* required set have a role in common, denies with 403 otherwise (also for a
\* missing or empty role set), and changes neither the claims nor any other
\* state.
C8_AuthorizeIffIntersect ==
    /\ [](authz.state = "returned" =>
            IF (RoleSet(authz.claims) \cap authz.roles) # {}
            THEN authz.status = 200 /\ authz.returned = authz.claims
            ELSE authz.status = HTTP_403_FORBIDDEN /\ authz.returned = EmptyMap)
    /\ [][NoSideEffects]_vars

\* What holds of C8: for claims whose "roles" is missing or a list of names
\* the grant is exactly the intersection, and no call has a side effect.
C8_ListRolesAuthorizeIffIntersect ==
    /\ [](ListRoles =>
            IF (RoleSet(authz.claims) \cap authz.roles) # {}
            THEN authz.status = 200 /\ authz.returned = authz.claims
            ELSE authz.status = HTTP_403_FORBIDDEN /\ authz.returned = EmptyMap)
    /\ [][NoSideEffects]_vars

\* C10: the /_authenticated route shows its layout and child page only to a
\* signed-in user; a signed-out user on a protected route gets the redirect
\* to sign-in; the protected content and the redirect are never both there.
C10_ProtectedOnlyWhenSignedIn ==
    /\ (("AuthenticatedLayout" \in Rendered) \/ (Rendered \cap ProtectedRoutes # {}))
          => (PUBLISHABLE_KEY /\ auth = "signedIn")
    /\ (PUBLISHABLE_KEY /\ auth = "signedOut" /\ location \in ProtectedRoutes)
          => "RedirectToSignIn" \in Rendered
    /\ "RedirectToSignIn" \in Rendered => auth = "signedOut"
    /\ ~("AuthenticatedLayout" \in Rendered /\ "RedirectToSignIn" \in Rendered)

\* C10 witness: the session ended on a protected page: the redirect is
\* rendered and the page is not
C10_Witness ==
    /\ PUBLISHABLE_KEY
    /\ auth = "signedOut"
    /\ location = "/_authenticated/user-management"
    /\ "RedirectToSignIn" \in Rendered
    /\ location \notin Rendered
====
